---------------------------- MODULE Spec2Model ----------------------------
(***************************************************************************)
(* A model of mnist/distributed/trainer/model.py: the model factory, the   *)
(* graph assembly for training and evaluation, the prediction graph, and   *)
(* the pipeline stages parse -> inference -> loss -> training/evaluation.  *)
(* Graph construction and graph execution are separate steps, as in the    *)
(* dataflow framework the file is written against: a build action records  *)
(* the ops it creates, a run action executes them on a batch.              *)
(***************************************************************************)
EXTENDS Integers, Sequences, FiniteSets, TLC

VARIABLES
  argv,          \* the process arguments seen by create_model
  cm_pc,         \* "start" | "done" | "abort": position of create_model
  model,         \* the Model returned by create_model
  task_args,     \* the residual argument list returned by create_model
  p_pc,          \* "start" | "built" | "ran": position of the parsing graph
  p_feed,        \* the serialized records fed to the examples tensor
  p_out,         \* what running the parse ops produced
  i_layers,      \* the layers inference has added to the graph, in order
  i_out,         \* the last execution of the inference graph
  e_logits,      \* evaluation: the batch's logits, one vector per example
  e_labels,      \* evaluation: the batch's labels
  e_out,         \* evaluation: the accuracy computed, or "not run"
  g_pc,          \* "unbuilt" | "built": whether build_graph has run
  g_is_training, \* the mode build_graph was called in
  g_batch_size,  \* the batch size build_graph was called with
  g_tensors,     \* the GraphReferences build_graph returned
  g_summaries,   \* the scalar summaries registered in the graph
  g_session,     \* the graph's variables: global step, weights, means
  g_run,         \* the last session.run call: what ran, on what, its result
  g_folded,      \* history: the batch values folded in by metric updates
  g_steps,       \* history: the number of runs of the training op
  x_pc,          \* "unbuilt" | "built": whether build_prediction_graph ran
  x_collections, \* the graph collections 'inputs' and 'outputs'
  x_request,     \* the last prediction request: alias -> values sent
  x_response     \* the response to it: alias -> values fetched

argsVars == <<argv, cm_pc, model, task_args>>

parseVars == <<p_pc, p_feed, p_out>>

inferVars == <<i_layers, i_out>>

evalVars == <<e_logits, e_labels, e_out>>

graphVars == <<g_pc, g_is_training, g_batch_size, g_tensors, g_summaries,
               g_session, g_run, g_folded, g_steps>>

vars == <<argv, cm_pc, model, task_args, p_pc, p_feed, p_out,
          i_layers, i_out, e_logits, e_labels, e_out,
          g_pc, g_is_training, g_batch_size, g_tensors, g_summaries,
          g_session, g_run, g_folded, g_steps,
          x_pc, x_collections, x_request, x_response>>

exportVars == <<x_pc, x_collections, x_request, x_response>>

None == "None"

(***************************************************************************)
(* Bounds of the model.                                                    *)
(***************************************************************************)
MaxArgs == 3
MaxRecords == 2
MaxBatch == 2
MaxRuns == 3

(***************************************************************************)
(* Module constants.                                                       *)
(***************************************************************************)
HIDDEN1 == 128
HIDDEN2 == 32
NUM_CLASSES == 10
IMAGE_SIZE == 28
IMAGE_PIXELS == IMAGE_SIZE * IMAGE_SIZE

(***************************************************************************)
(* String helpers.                                                         *)
(***************************************************************************)
StartsWith(s, p) == Len(s) >= Len(p) /\ SubSeq(s, 1, Len(p)) = p

EndsWith(s, p) ==
  Len(s) >= Len(p) /\ SubSeq(s, Len(s) - Len(p) + 1, Len(s)) = p

(***************************************************************************)
(* create_model.                                                           *)
(***************************************************************************)
\* The set of strings argparse's type=float accepts, among those the model
\* hands it.
FloatStrings == {"0.01", "0.5", "50", "7"}

LEARNING_RATE_FLAG == "--learning_rate"
LEARNING_RATE_DEFAULT == "0.01"

\* parser.parse_known_args(): a left-to-right scan that takes the
\* --learning_rate option (in either form) out of the list and leaves every
\* other token, in order, in the residual list.  The result is
\* [ok, learning_rate, rest]; ok is FALSE when argparse exits (a missing or
\* non-float value).
RECURSIVE ParseKnownFrom(_, _, _, _)
ParseKnownFrom(args, i, lr, rest) ==
  IF i > Len(args) THEN [ok |-> TRUE, learning_rate |-> lr, rest |-> rest]
  ELSE IF args[i] = LEARNING_RATE_FLAG THEN
    IF i = Len(args) \/ StartsWith(args[i + 1], "--")
      THEN [ok |-> FALSE, learning_rate |-> lr, rest |-> rest]
    ELSE IF args[i + 1] \notin FloatStrings
      THEN [ok |-> FALSE, learning_rate |-> lr, rest |-> rest]
    ELSE ParseKnownFrom(args, i + 2, args[i + 1], rest)
  ELSE IF StartsWith(args[i], LEARNING_RATE_FLAG \o "=") THEN
    LET v == SubSeq(args[i], Len(LEARNING_RATE_FLAG) + 2, Len(args[i]))
    IN IF v \notin FloatStrings
         THEN [ok |-> FALSE, learning_rate |-> lr, rest |-> rest]
         ELSE ParseKnownFrom(args, i + 1, v, rest)
  ELSE ParseKnownFrom(args, i + 1, lr, Append(rest, args[i]))

parse_known_args(args) ==
  ParseKnownFrom(args, 1, LEARNING_RATE_DEFAULT, <<>>)

\* util.override_if_not_in_args(flag, argument, args): the flag and its
\* argument are appended unless the flag is already in the list, as a token
\* of its own or in the --flag=value form.
InArgs(flag, args) ==
  \E i \in 1..Len(args) :
    args[i] = flag \/ StartsWith(args[i], flag \o "=")

override_if_not_in_args(flag, argument, args) ==
  IF InArgs(flag, args) THEN args ELSE args \o <<flag, argument>>

\* A wrong default for --batch_size.
DefaultsWrongBatchSize ==
  << <<"--max_steps", "5000">>,
     <<"--batch_size", "1000">>,
     <<"--eval_set_size", "10000">>,
     <<"--eval_interval_secs", "1">>,
     <<"--log_interval_secs", "1">>,
     <<"--min_train_eval_rate", "1">> >>

\* The six calls of create_model, in order.
Defaults ==
  << <<"--max_steps", "5000">>,
     <<"--batch_size", "100">>,
     <<"--eval_set_size", "10000">>,
     <<"--eval_interval_secs", "1">>,
     <<"--log_interval_secs", "1">>,
     <<"--min_train_eval_rate", "1">> >>

RECURSIVE OverrideAll(_, _, _)
OverrideAll(defaults, k, args) ==
  IF k > Len(defaults) THEN args
  ELSE OverrideAll(defaults, k + 1,
         override_if_not_in_args(defaults[k][1], defaults[k][2], args))

\* Model.__init__
NewModel(learning_rate, hidden1, hidden2) ==
  [learning_rate |-> learning_rate, hidden1 |-> hidden1, hidden2 |-> hidden2]

\* The arguments a caller may pass, one option at a time: an option and its
\* value as two tokens or as one --option=value token.
CallerOptions ==
  { <<"--batch_size", "50">>, <<"--batch_size=50">>,
    <<"--max_steps=7">>,
    <<"--min_train_eval_rate", "7">>,
    <<"--learning_rate", "0.5">>, <<"--learning_rate=fast">>,
    <<"--learning_rate">>,
    <<"--output_path", "out">> }

AppendArg ==
  /\ cm_pc = "start"
  /\ Len(argv) < 2 * MaxArgs
  /\ \E o \in CallerOptions :
       /\ Len(argv) + Len(o) <= 2 * MaxArgs
       /\ argv' = argv \o o
  /\ UNCHANGED <<cm_pc, model, task_args>>
  /\ UNCHANGED <<parseVars, inferVars, evalVars, graphVars, exportVars>>

\* create_model() returning normally.
CreateModel ==
  /\ cm_pc = "start"
  /\ LET p == parse_known_args(argv) IN
       /\ p.ok
       /\ model' = NewModel(p.learning_rate, HIDDEN1, HIDDEN2)
       /\ task_args' = OverrideAll(Defaults, 1, p.rest)
  /\ cm_pc' = "done"
  /\ UNCHANGED argv
  /\ UNCHANGED <<parseVars, inferVars, evalVars, graphVars, exportVars>>

\* create_model() leaving through argparse's error exit.
CreateModelAbort ==
  /\ cm_pc = "start"
  /\ ~parse_known_args(argv).ok
  /\ cm_pc' = "abort"
  /\ UNCHANGED <<argv, model, task_args>>
  /\ UNCHANGED <<parseVars, inferVars, evalVars, graphVars, exportVars>>

ArgsInit ==
  /\ argv = <<>>
  /\ cm_pc = "start"
  /\ model = None
  /\ task_args = <<>>

ArgsNext == AppendArg \/ CreateModel \/ CreateModelAbort

(***************************************************************************)
(* Serialized example records and tf.parse_example.                        *)
(*                                                                         *)
(* A serialized record is the list of its (feature name, value list)       *)
(* entries.  A feature specification gives, per feature name, the number   *)
(* of values of the fixed-length feature, whether the parsed value is a    *)
(* scalar (shape []), and the default used when the record has no such     *)
(* feature.                                                                *)
(***************************************************************************)
Feature(name, values) == [name |-> name, values |-> values]

\* The value list a record holds for a feature; empty when it has none.
FeatureValues(rec, name) ==
  LET idx == { i \in 1..Len(rec) : rec[i].name = name }
  IN IF idx = {} THEN <<>>
     ELSE rec[CHOOSE i \in idx : \A j \in idx : j <= i].values

FixedLenFeature(size, scalar, has_default, default_value) ==
  [size |-> size, scalar |-> scalar,
   has_default |-> has_default, default_value |-> default_value]

\* Whether one record supplies (or defaults) feature `name` under spec f.
FeatureOk(rec, name, f) ==
  LET v == FeatureValues(rec, name)
  IN \/ Len(v) = f.size
     \/ Len(v) = 0 /\ f.has_default

\* The dense value of feature `name` of one record.
FeatureDense(rec, name, f) ==
  LET v == FeatureValues(rec, name)
      d == IF Len(v) = 0 /\ f.has_default THEN f.default_value ELSE v
  IN IF f.scalar THEN d[1] ELSE d

\* Executing tf.parse_example on a batch: one dense tensor per feature, row
\* i from record i; the op fails if any record lacks a feature without
\* default or holds a wrong number of values.
parse_example(serialized, features) ==
  IF \A i \in 1..Len(serialized) : \A n \in DOMAIN features :
       FeatureOk(serialized[i], n, features[n])
  THEN [status |-> "ok",
        tensors |-> [n \in DOMAIN features |->
                       [i \in 1..Len(serialized) |->
                          FeatureDense(serialized[i], n, features[n])]]]
  ELSE [status |-> "error", tensors |-> <<>>]

\* A feature map whose labels default to class 0.
feature_map_default_zero ==
  [labels |-> FixedLenFeature(1, TRUE, TRUE, <<0>>),
   images |-> FixedLenFeature(IMAGE_PIXELS, FALSE, FALSE, <<>>)]

\* parse_examples' feature_map.
feature_map ==
  [labels |-> FixedLenFeature(1, TRUE, TRUE, <<-1>>),
   images |-> FixedLenFeature(IMAGE_PIXELS, FALSE, FALSE, <<>>)]

\* parse_examples(examples), executed on the records fed for `examples`.
parse_examples(examples) == parse_example(examples, feature_map)

\* Encoding one training/evaluation record; has_label = FALSE leaves the
\* labels feature out.
EncodeExample(image, has_label, label) ==
  IF has_label THEN << Feature("images", image), Feature("labels", <<label>>) >>
  ELSE << Feature("images", image) >>

\* Image vectors: a constant image, and one with a single bright pixel.
FlatImage(n, v) == [i \in 1..n |-> v]
SpotImage(n, k) == [i \in 1..n |-> IF i = k THEN 1 ELSE 0]

ImageSamples ==
  { FlatImage(IMAGE_PIXELS, 0), SpotImage(IMAGE_PIXELS, IMAGE_PIXELS),
    FlatImage(IMAGE_PIXELS - 1, 0), FlatImage(IMAGE_PIXELS + 1, 0) }

RecordSamples ==
  { EncodeExample(im, hl, lb) :
      im \in ImageSamples, hl \in BOOLEAN, lb \in {0, NUM_CLASSES - 1} }

\* parse_examples is called while the graph is built: it only adds the parse
\* ops; no record exists yet.
ParseExamplesCall ==
  /\ p_pc = "start"
  /\ p_pc' = "built"
  /\ p_out' = [status |-> "not run", tensors |-> <<>>]
  /\ UNCHANGED p_feed
  /\ UNCHANGED <<argsVars, inferVars, evalVars, graphVars, exportVars>>

\* The input stage delivers one more serialized record for the next run.
FeedRecord ==
  /\ p_pc = "built"
  /\ Len(p_feed) < MaxRecords
  /\ \E r \in RecordSamples : p_feed' = Append(p_feed, r)
  /\ UNCHANGED <<p_pc, p_out>>
  /\ UNCHANGED <<argsVars, inferVars, evalVars, graphVars, exportVars>>

\* The session executes the parse ops on the records fed.
RunParse ==
  /\ p_pc = "built"
  /\ p_out' = parse_examples(p_feed)
  /\ p_pc' = "ran"
  /\ UNCHANGED p_feed
  /\ UNCHANGED <<argsVars, inferVars, evalVars, graphVars, exportVars>>

ParseInit ==
  /\ p_pc = "start"
  /\ p_feed = <<>>
  /\ p_out = [status |-> "not built", tensors |-> <<>>]

ParseNext == ParseExamplesCall \/ FeedRecord \/ RunParse

(***************************************************************************)
(* inference.                                                              *)
(***************************************************************************)
Classes == 0..(NUM_CLASSES - 1)

\* The activation_fn layers.fully_connected applies when its caller passes
\* none: nn.relu.
DefaultActivationFn == "relu"

\* layers.fully_connected(inputs, num_outputs) as inference calls it, with no
\* activation_fn argument.
fully_connected(inputs_width, num_outputs) ==
  [num_inputs |-> inputs_width, num_outputs |-> num_outputs,
   activation_fn |-> DefaultActivationFn]

\* The layers inference(images, hidden1_units, hidden2_units) builds.
inference(images_width, hidden1_units, hidden2_units) ==
  LET hidden1 == fully_connected(images_width, hidden1_units)
      hidden2 == fully_connected(hidden1.num_outputs, hidden2_units)
  IN << hidden1, hidden2, fully_connected(hidden2.num_outputs, NUM_CLASSES) >>

Relu(x) == IF x > 0 THEN x ELSE 0

\* What a layer returns for the vector `affine` its weights and biases
\* produced.
Activate(layer, affine) ==
  IF layer.activation_fn = "relu"
    THEN [c \in DOMAIN affine |-> Relu(affine[c])]
    ELSE affine

HiddenWidths == {1, 2, HIDDEN2, HIDDEN1}

\* Results of the output layer's affine transform, which the weights decide.
AffineSamples ==
  { [c \in Classes |-> 0],
    [c \in Classes |-> IF c = 3 THEN 2 ELSE -1],
    [c \in Classes |-> IF c = 3 THEN -2 ELSE -1],
    [c \in Classes |-> c - 4],
    [c \in Classes |-> c + 1],
    [c \in Classes |-> 3 - c] }

InferenceCall ==
  /\ i_layers = <<>>
  /\ \E h1 \in HiddenWidths, h2 \in HiddenWidths :
       i_layers' = inference(IMAGE_PIXELS, h1, h2)
  /\ UNCHANGED i_out
  /\ UNCHANGED <<argsVars, parseVars, evalVars, graphVars, exportVars>>

\* One execution of the graph: the output layer's affine result and the
\* logits the layer returns for it.
RunInference ==
  /\ i_layers # <<>>
  /\ \E z \in AffineSamples :
       i_out' = [affine |-> z, logits |-> Activate(i_layers[3], z)]
  /\ UNCHANGED i_layers
  /\ UNCHANGED <<argsVars, parseVars, evalVars, graphVars, exportVars>>

InferInit ==
  /\ i_layers = <<>>
  /\ i_out = [affine |-> <<>>, logits |-> <<>>]

InferNext == InferenceCall \/ RunInference

(***************************************************************************)
(* evaluation and loss.                                                    *)
(*                                                                         *)
(* Logits are integers in units of ln 2, so that softmax and the           *)
(* cross-entropy are exact: softmax(z)[c] = 2^z[c] / Sum_c 2^z[c], and the *)
(* cross-entropy of label l is log2(Sum_c 2^z[c]) - z[l], in units of      *)
(* ln 2.  A ratio is the record [num, den].                                *)
(***************************************************************************)
\* tf.nn.in_top_k(predictions, targets, k) for one example whose target is a
\* class: the target is in the top k when fewer than k classes score
\* strictly higher.
InTopK(prediction, target, k) ==
  Cardinality({ c \in Classes : prediction[c] > prediction[target] }) < k

\* The kernel does not check the target: for a target outside the classes
\* it compares against whatever the out-of-bounds read returns, so the
\* answer is either one; `stray` is that answer, per example.
in_top_k_strict(predictions, targets, k, stray) ==
  [i \in 1..Len(targets) |->
     IF targets[i] \in Classes
       THEN Cardinality({ c \in Classes :
              c # targets[i] /\ predictions[i][c] >= predictions[i][targets[i]] }) < k
       ELSE stray[i]]

in_top_k(predictions, targets, k, stray) ==
  [i \in 1..Len(targets) |->
     IF targets[i] \in Classes THEN InTopK(predictions[i], targets[i], k)
     ELSE stray[i]]

\* evaluation(logits, labels): the mean of in_top_k(...) cast to float.
evaluation(logits, labels, stray) ==
  LET correct == in_top_k(logits, labels, 1, stray)
  IN [num |-> Cardinality({ i \in 1..Len(labels) : correct[i] }),
      den |-> Len(labels)]

\* Logit vectors whose softmax denominator is a power of two (32, 32, 16).
LogitSamples ==
  { [c \in Classes |-> IF c = 3 THEN 4 ELSE IF c \in {0, 9} THEN 0 ELSE 1],
    [c \in Classes |-> IF c \in {3, 7} THEN 3 ELSE 1],
    [c \in Classes |-> IF c <= 5 THEN 1 ELSE 0] }

LabelSamples == {-1, 0, 3, 7, NUM_CLASSES - 1}

AddExample ==
  /\ e_out.status = "not run"
  /\ Len(e_labels) < MaxBatch
  /\ \E z \in LogitSamples, l \in LabelSamples :
       /\ e_logits' = Append(e_logits, z)
       /\ e_labels' = Append(e_labels, l)
  /\ UNCHANGED e_out
  /\ UNCHANGED <<argsVars, parseVars, inferVars, graphVars, exportVars>>

\* Executing the op evaluation(logits, labels) returns, on a non-empty batch.
RunEvaluation ==
  /\ e_out.status = "not run"
  /\ Len(e_labels) > 0
  /\ \E stray \in [1..Len(e_labels) -> BOOLEAN] :
       e_out' = [status |-> "ran",
                 accuracy |-> evaluation(e_logits, e_labels, stray)]
  /\ UNCHANGED <<e_logits, e_labels>>
  /\ UNCHANGED <<argsVars, parseVars, inferVars, graphVars, exportVars>>

EvalInit ==
  /\ e_logits = <<>>
  /\ e_labels = <<>>
  /\ e_out = [status |-> "not run", accuracy |-> [num |-> 0, den |-> 0]]

EvalNext == AddExample \/ RunEvaluation

(***************************************************************************)
(* loss.                                                                   *)
(***************************************************************************)
RECURSIVE Pow2(_)
Pow2(n) == IF n = 0 THEN 1 ELSE 2 * Pow2(n - 1)

RECURSIVE SumPow2(_, _)
SumPow2(z, c) == IF c < 0 THEN 0 ELSE Pow2(z[c]) + SumPow2(z, c - 1)

\* log2 of a power of two.
RECURSIVE Log2(_)
Log2(n) == IF n <= 1 THEN 0 ELSE 1 + Log2(n \div 2)

\* The sparse softmax cross-entropy of one example, for a label that is a
\* class, in units of ln 2.
CrossEntropy(z, label) == Log2(SumPow2(z, NUM_CLASSES - 1)) - z[label]

RECURSIVE SumCrossEntropy(_, _, _)
SumCrossEntropy(logits, labels, i) ==
  IF i = 0 THEN 0
  ELSE CrossEntropy(logits[i], labels[i]) + SumCrossEntropy(logits, labels, i - 1)

\* loss(logits, labels): the batch mean of the cross-entropy, as the record
\* [status, nan, num] standing for num / Len(labels).  The labels go to the
\* cross-entropy as they are; a label that is no class makes the kernel
\* either reject the batch or return NaN, and `bad_label` is the one the
\* build in use does.
loss(logits, labels, bad_label) ==
  IF \A i \in 1..Len(labels) : labels[i] \in Classes
    THEN [status |-> "ok", nan |-> FALSE,
          num |-> SumCrossEntropy(logits, labels, Len(labels))]
  ELSE IF bad_label = "error"
    THEN [status |-> "error", nan |-> FALSE, num |-> 0]
    ELSE [status |-> "ok", nan |-> TRUE, num |-> 0]

(***************************************************************************)
(* training, streaming means and build_graph.                              *)
(* An op or tensor handle is a record; NoneOp stands for Python's None.    *)
(***************************************************************************)
NoneOp == [op |-> "None"]

\* GraphReferences.__init__
GraphReferences ==
  [examples |-> NoneOp, train |-> NoneOp, global_step |-> NoneOp,
   metric_updates |-> <<>>, metric_values |-> <<>>,
   keys |-> NoneOp, predictions |-> <<>>]

\* tf.Variable(0, name='global_step', trainable=False)
GlobalStepVariable ==
  [op |-> "Variable", name |-> "global_step", initial_value |-> 0,
   trainable |-> FALSE]

\* A training op that does not hand the counter to the optimizer.
training_without_step(loss_op, learning_rate) ==
  << [op |-> "minimize", loss |-> loss_op, learning_rate |-> learning_rate,
      global_step |-> NoneOp],
     GlobalStepVariable >>

\* training(loss_op, learning_rate): the pair (train_op, global_step).
training(loss_op, learning_rate) ==
  << [op |-> "minimize", loss |-> loss_op, learning_rate |-> learning_rate,
      global_step |-> GlobalStepVariable],
     GlobalStepVariable >>

\* metric_ops.streaming_mean(values): the pair (mean, update_op) over a
\* fresh total/count pair of local variables, named by `scope`.
streaming_mean(values, scope) ==
  << [op |-> "mean_value", scope |-> scope],
     [op |-> "mean_update", scope |-> scope, values |-> values] >>

\* util.read_examples, as build_graph calls it.
read_examples(batch_size, is_training) ==
  [op |-> "read_examples", batch_size |-> batch_size,
   shuffle |-> is_training,
   num_epochs |-> IF is_training THEN None ELSE "2"]

\* build_graph with the two metric lists in different orders.
build_graph_metrics_crossed(self, batch_size, is_training) ==
  LET loss_value == [op |-> "loss"]
      accuracy_value == [op |-> "evaluation"]
      tr == training(loss_value, self.learning_rate)
      lm == streaming_mean(loss_value, "mean")
      am == streaming_mean(accuracy_value, "mean_1")
  IN [tensors |->
        [GraphReferences EXCEPT
           !.examples = read_examples(batch_size, is_training),
           !.train = IF is_training THEN tr[1] ELSE NoneOp,
           !.global_step = IF is_training THEN tr[2] ELSE GlobalStepVariable,
           !.metric_updates = << lm[2], am[2] >>,
           !.metric_values = << am[1], lm[1] >>],
      summaries |-> { <<"accuracy", am[1]>>, <<"loss", lm[1]>> }]

\* build_graph that builds the optimizer in both modes.
build_graph_always_trains(self, batch_size, is_training) ==
  LET loss_value == [op |-> "loss"]
      accuracy_value == [op |-> "evaluation"]
      tr == training(loss_value, self.learning_rate)
      lm == streaming_mean(loss_value, "mean")
      am == streaming_mean(accuracy_value, "mean_1")
  IN [tensors |->
        [GraphReferences EXCEPT
           !.examples = read_examples(batch_size, is_training),
           !.train = tr[1],
           !.global_step = tr[2],
           !.metric_updates = << lm[2], am[2] >>,
           !.metric_values = << lm[1], am[1] >>],
      summaries |-> { <<"accuracy", am[1]>>, <<"loss", lm[1]>> }]

\* Model.build_graph(data_paths, batch_size, is_training): the references it
\* returns and the summaries it registers.
build_graph(self, batch_size, is_training) ==
  LET loss_value == [op |-> "loss"]
      accuracy_value == [op |-> "evaluation"]
      tr == training(loss_value, self.learning_rate)
      lm == streaming_mean(loss_value, "mean")
      am == streaming_mean(accuracy_value, "mean_1")
  IN [tensors |->
        [GraphReferences EXCEPT
           !.examples = read_examples(batch_size, is_training),
           !.train = IF is_training THEN tr[1] ELSE NoneOp,
           !.global_step = IF is_training THEN tr[2] ELSE GlobalStepVariable,
           !.metric_updates = << lm[2], am[2] >>,
           !.metric_values = << lm[1], am[1] >>],
      summaries |-> { <<"accuracy", am[1]>>, <<"loss", lm[1]>> }]

\* Labels with the missing-label default replaced by class 0.
LabelsForMetricsClamped(parsed) ==
  [i \in 1..Len(parsed.labels) |->
     IF parsed.labels[i] = -1 THEN 0 ELSE parsed.labels[i]]

\* The labels tensor build_graph hands to loss and to evaluation.
LabelsForMetrics(parsed) == parsed.labels

\* The values of the loss and accuracy tensors on one dequeued batch: the
\* labels handed to both, the loss (with its status) and the number of
\* correct examples.
BatchValues(batch, logits, bad_label, stray) ==
  LET p == parse_examples(batch)
  IN IF p.status # "ok"
       THEN [labels |-> <<>>,
             loss |-> [status |-> "error", nan |-> FALSE, num |-> 0],
             accuracy |-> 0]
     ELSE [labels |-> LabelsForMetrics(p.tensors),
           loss |-> loss(logits, LabelsForMetrics(p.tensors), bad_label),
           accuracy |-> evaluation(logits, LabelsForMetrics(p.tensors),
                                   stray).num]

\* Records the input stage may deliver to a graph: labelled 3, labelled 9,
\* and without a label.
GraphRecordSamples ==
  { EncodeExample(FlatImage(IMAGE_PIXELS, 0), TRUE, 3),
    EncodeExample(FlatImage(IMAGE_PIXELS, 0), TRUE, NUM_CLASSES - 1),
    EncodeExample(FlatImage(IMAGE_PIXELS, 0), FALSE, 0) }

\* The logits inference returns for those records under the current
\* weights: class 3 scores highest.
GraphLogits == [c \in Classes |-> IF c = 3 THEN 4 ELSE IF c \in {0, 9} THEN 0 ELSE 1]

GraphBatchSizes == {1, 2}

\* The steps a gradient-descent update may take, already scaled by the
\* learning rate; 0 is a zero gradient.
GradientSteps == {0, 1}

MeanState == [nan |-> FALSE, total |-> 0, count |-> 0]

\* total += value; count += 1
Fold(m, nan, value) ==
  [nan |-> m.nan \/ nan,
   total |-> IF m.nan \/ nan THEN 0 ELSE m.total + value,
   count |-> m.count + 1]

\* The mean a value op returns: total / count, and 0 before any update.
\* Batch values have the denominator n, the batch size.
MeanValue(m, n) ==
  IF m.count = 0 THEN [nan |-> FALSE, num |-> 0, den |-> 1]
  ELSE [nan |-> m.nan, num |-> m.total, den |-> n * m.count]

\* '%.3f' of a ratio: thousandths, rounded to nearest.  An exact tie goes to
\* the even neighbour, as it does for a float that holds the tie exactly.
Format3(r) ==
  IF r.nan THEN [nan |-> TRUE, thousandths |-> 0]
  ELSE LET q == (1000 * r.num) \div r.den
           rem2 == 2 * ((1000 * r.num) % r.den)
       IN [nan |-> FALSE,
           thousandths |-> IF rem2 > r.den \/ (rem2 = r.den /\ q % 2 = 1)
                             THEN q + 1 ELSE q]

\* Model.format_metric_values(metric_values)
format_metric_values(metric_values) ==
  << [label |-> "loss", value |-> Format3(metric_values[1])],
     [label |-> "accuracy", value |-> Format3(metric_values[2])] >>

DefaultModel == NewModel(LEARNING_RATE_DEFAULT, HIDDEN1, HIDDEN2)

NoRun ==
  [op |-> "none", status |-> "none", record_labels |-> <<>>, labels |-> <<>>,
   values |-> <<>>, formatted |-> <<>>]

\* build_train_graph / build_eval_graph, and the initialisation of the
\* graph's variables.
BuildGraph(is_training) ==
  /\ g_pc = "unbuilt"
  /\ \E b \in GraphBatchSizes :
       LET g == build_graph(DefaultModel, b, is_training) IN
         /\ g_batch_size' = b
         /\ g_tensors' = g.tensors
         /\ g_summaries' = g.summaries
         /\ g_session' =
              [global_step |-> g.tensors.global_step.initial_value,
               weights |-> [nan |-> FALSE, v |-> 0],
               means |-> [sc \in { g.tensors.metric_updates[k].scope :
                                     k \in 1..Len(g.tensors.metric_updates) }
                            |-> MeanState]]
  /\ g_pc' = "built"
  /\ g_is_training' = is_training
  /\ UNCHANGED <<g_run, g_folded, g_steps>>
  /\ UNCHANGED <<argsVars, parseVars, inferVars, evalVars, exportVars>>

BuildTrainGraph == BuildGraph(TRUE)

BuildEvalGraph == BuildGraph(FALSE)

\* The batches a run may dequeue, and what the kernels may do with the labels
\* of one: a batch whose labels are all classes leaves them no choice.
Batches(n) == [1..n -> GraphRecordSamples]

Labelled(rec) ==
  /\ FeatureValues(rec, "labels") # <<>>
  /\ FeatureValues(rec, "labels")[1] \in Classes

BadLabelOutcomes(batch) ==
  IF \A i \in DOMAIN batch : Labelled(batch[i]) THEN {"nan"}
  ELSE {"error", "nan"}

StrayAnswers(batch) ==
  { f \in [DOMAIN batch -> BOOLEAN] :
      \A i \in DOMAIN batch : Labelled(batch[i]) => ~f[i] }

RecordLabels(batch) ==
  [i \in DOMAIN batch |-> FeatureValues(batch[i], "labels")]

\* session.run(tensors.train): one optimizer step on a dequeued batch.  The
\* gradients are applied and the counter the op was given is incremented in
\* the same update.
RunTrain ==
  /\ g_pc = "built"
  /\ g_tensors.train # NoneOp
  /\ g_steps + Len(g_folded) < MaxRuns
  /\ \E batch \in Batches(g_batch_size), step \in GradientSteps :
     \E bad_label \in BadLabelOutcomes(batch), stray \in StrayAnswers(batch) :
     \E bv \in { BatchValues(batch, [i \in DOMAIN batch |-> GraphLogits],
                              bad_label, stray) } :
         /\ g_run' = [NoRun EXCEPT !.op = "train", !.status = bv.loss.status,
                        !.record_labels = RecordLabels(batch),
                        !.labels = bv.labels]
         /\ IF bv.loss.status # "ok"
              THEN UNCHANGED <<g_session, g_steps>>
              ELSE /\ g_steps' = g_steps + 1
                   /\ g_session' =
                        [g_session EXCEPT
                           !.weights =
                              IF bv.loss.nan \/ @.nan
                                THEN [nan |-> TRUE, v |-> 0]
                                ELSE [nan |-> FALSE, v |-> @.v - step],
                           !.global_step =
                              IF g_tensors.train.global_step = NoneOp
                                THEN @ ELSE @ + 1]
  /\ UNCHANGED <<g_pc, g_is_training, g_batch_size, g_tensors, g_summaries,
                 g_folded>>
  /\ UNCHANGED <<argsVars, parseVars, inferVars, evalVars, exportVars>>

RECURSIVE FoldAll(_, _, _, _)
FoldAll(means, updates, k, bv) ==
  IF k > Len(updates) THEN means
  ELSE LET u == updates[k]
           m == IF u.values.op = "loss"
                  THEN Fold(means[u.scope], bv.loss.nan, bv.loss.num)
                  ELSE Fold(means[u.scope], FALSE, bv.accuracy)
       IN FoldAll([means EXCEPT ![u.scope] = m], updates, k + 1, bv)

\* session.run(tensors.metric_updates): both update ops on one dequeued
\* batch.  The evaluation graph's input stage reads its files twice and
\* then has no batch left: the run fails and changes nothing.
RunMetricUpdates ==
  /\ g_pc = "built"
  /\ g_steps + Len(g_folded) < MaxRuns
  /\ \/ /\ ~g_is_training
        /\ g_run' = [NoRun EXCEPT !.op = "metric_updates",
                       !.status = "out of range"]
        /\ UNCHANGED <<g_session, g_folded>>
     \/ \E batch \in Batches(g_batch_size) :
         \E bad_label \in BadLabelOutcomes(batch), stray \in StrayAnswers(batch) :
         \E bv \in { BatchValues(batch, [i \in DOMAIN batch |-> GraphLogits],
                                  bad_label, stray) } :
             /\ g_run' = [NoRun EXCEPT !.op = "metric_updates",
                            !.status = bv.loss.status,
                            !.record_labels = RecordLabels(batch),
                            !.labels = bv.labels]
             /\ IF bv.loss.status # "ok"
                  THEN UNCHANGED <<g_session, g_folded>>
                  ELSE /\ g_folded' = Append(g_folded,
                                        [loss |-> [nan |-> bv.loss.nan,
                                                   num |-> bv.loss.num],
                                         accuracy |-> bv.accuracy])
                       /\ g_session' =
                            [g_session EXCEPT
                               !.means = FoldAll(@, g_tensors.metric_updates, 1, bv)]
  /\ UNCHANGED <<g_pc, g_is_training, g_batch_size, g_tensors, g_summaries,
                 g_steps>>
  /\ UNCHANGED <<argsVars, parseVars, inferVars, evalVars, exportVars>>

\* The running state a fetch of the value ops leaves behind.
SessionAfterValuesReset(session) ==
  [session EXCEPT !.means = [sc \in DOMAIN @ |-> MeanState]]

SessionAfterValues(session) == session

\* session.run(tensors.metric_values), then format_metric_values on what it
\* returned.
RunMetricValues ==
  /\ g_pc = "built"
  /\ LET values == [k \in 1..Len(g_tensors.metric_values) |->
                      MeanValue(g_session.means[g_tensors.metric_values[k].scope],
                                g_batch_size)]
     IN g_run' = [NoRun EXCEPT !.op = "metric_values", !.status = "ok",
                    !.values = values,
                    !.formatted = format_metric_values(values)]
  /\ g_session' = SessionAfterValues(g_session)
  /\ UNCHANGED <<g_pc, g_is_training, g_batch_size, g_tensors, g_summaries,
                 g_folded, g_steps>>
  /\ UNCHANGED <<argsVars, parseVars, inferVars, evalVars, exportVars>>

GraphInit ==
  /\ g_pc = "unbuilt"
  /\ g_is_training = FALSE
  /\ g_batch_size = 0
  /\ g_tensors = GraphReferences
  /\ g_summaries = {}
  /\ g_session = [global_step |-> 0, weights |-> [nan |-> FALSE, v |-> 0],
                  means |-> <<>>]
  /\ g_run = NoRun
  /\ g_folded = <<>>
  /\ g_steps = 0

GraphNext ==
  \/ BuildTrainGraph
  \/ BuildEvalGraph
  \/ RunTrain
  \/ RunMetricUpdates
  \/ RunMetricValues

(***************************************************************************)
(* build_prediction_graph and the serving of the exported graph.           *)
(***************************************************************************)
\* Stand-ins for examples.name, keys.name, prediction.name and softmax.name,
\* the names the framework gives the four tensors.
ExamplesName == "Placeholder:0"
KeysName == "ParseExample/ParseExample:1"
PredictionName == "ArgMax:0"
SoftmaxName == "Softmax:0"

\* The features build_prediction_graph parses.
prediction_features ==
  [image |-> FixedLenFeature(IMAGE_PIXELS, FALSE, FALSE, <<>>),
   key |-> FixedLenFeature(1, TRUE, FALSE, <<>>)]

\* json.dumps of a flat mapping: the list of its members.
JsonObject(members) == members
Member(alias, tensor_name) == [alias |-> alias, tensor |-> tensor_name]

\* The registration with the outputs marked as raw bytes as well.
collections_all_bytes ==
  [inputs |-> << JsonObject(<< Member("examples_bytes", ExamplesName) >>) >>,
   outputs |-> << JsonObject(<< Member("key_bytes", KeysName),
                                Member("prediction", PredictionName),
                                Member("scores", SoftmaxName) >>) >>]

\* The two tf.add_to_collection calls of build_prediction_graph.
collections ==
  [inputs |-> << JsonObject(<< Member("examples_bytes", ExamplesName) >>) >>,
   outputs |-> << JsonObject(<< Member("key", KeysName),
                                Member("prediction", PredictionName),
                                Member("scores", SoftmaxName) >>) >>]

\* tf.nn.softmax(logits) of one example.
softmax(z) ==
  [c \in Classes |-> [num |-> Pow2(z[c]), den |-> SumPow2(z, NUM_CLASSES - 1)]]

\* tf.argmax(softmax, 1) of one example: the first class with the highest
\* score.
argmax(scores) ==
  CHOOSE c \in Classes :
    /\ \A d \in Classes : scores[d].num * scores[c].den
                            <= scores[c].num * scores[d].den
    /\ \A d \in Classes :
         scores[d].num * scores[c].den = scores[c].num * scores[d].den
           => c <= d

\* The value of each named tensor when the graph runs on `examples`, with
\* `logits` what inference returns for them.
PredictionTensors(examples, logits) ==
  LET parsed == parse_example(examples, prediction_features)
      sm == [i \in DOMAIN examples |-> softmax(logits[i])]
  IN IF parsed.status # "ok" THEN [status |-> "error", values |-> <<>>]
     ELSE [status |-> "ok",
           values |->
             (ExamplesName :> examples)
             @@ (KeysName :> parsed.tensors.key)
             @@ (SoftmaxName :> sm)
             @@ (PredictionName :> [i \in DOMAIN examples |-> argmax(sm[i])])]

\* The serving layer's transport of a value under an alias: base64 when the
\* alias ends in _bytes.
Base64(v) == [base64 |-> v]
Transported(alias, v) == IF EndsWith(alias, "_bytes") THEN Base64(v) ELSE [plain |-> v]
Received(alias, t) == IF EndsWith(alias, "_bytes") THEN t.base64 ELSE t.plain

EncodePredictionExample(image, has_key, key) ==
  IF has_key THEN << Feature("image", image), Feature("key", <<key>>) >>
  ELSE << Feature("image", image) >>

PredictionRecordSamples ==
  { EncodePredictionExample(FlatImage(IMAGE_PIXELS, 0), TRUE, "a"),
    EncodePredictionExample(SpotImage(IMAGE_PIXELS, 1), TRUE, "b"),
    EncodePredictionExample(FlatImage(IMAGE_PIXELS - 1, 0), TRUE, "c"),
    EncodePredictionExample(FlatImage(IMAGE_PIXELS, 0), FALSE, "") }

\* build_prediction_graph(export_dir), called once on a fresh graph.
BuildPredictionGraph ==
  /\ x_pc = "unbuilt"
  /\ x_pc' = "built"
  /\ x_collections' = collections
  /\ UNCHANGED <<x_request, x_response>>
  /\ UNCHANGED <<argsVars, parseVars, inferVars, evalVars, graphVars>>

\* A client adds one record to the request it is preparing.
AddRequestRecord ==
  /\ x_pc = "built"
  /\ Len(x_request.records) < MaxRecords
  /\ \E r \in PredictionRecordSamples, z \in LogitSamples :
       x_request' = [records |-> Append(x_request.records, r),
                     logits |-> Append(x_request.logits, z),
                     sent |-> <<>>]
  /\ x_response' = [status |-> "none", values |-> <<>>]
  /\ UNCHANGED <<x_pc, x_collections>>
  /\ UNCHANGED <<argsVars, parseVars, inferVars, evalVars, graphVars>>

\* The serving layer answers the request: it feeds the tensor the inputs
\* collection names, runs the graph and returns the tensors the outputs
\* collection names, each under its alias.
Predict ==
  /\ x_pc = "built"
  /\ Len(x_request.records) > 0
  /\ x_response.status = "none"
  /\ LET input == x_collections.inputs[1][1]
         sent == Transported(input.alias, x_request.records)
         outs == x_collections.outputs[1]
     IN \E run \in { PredictionTensors(Received(input.alias, sent),
                                       x_request.logits) } :
          /\ x_request' = [x_request EXCEPT !.sent = << input.alias, sent >>]
          /\ x_response' =
               IF run.status # "ok" THEN [status |-> "error", values |-> <<>>]
               ELSE [status |-> "ok",
                     values |-> [k \in 1..Len(outs) |->
                                  [alias |-> outs[k].alias,
                                   value |-> Transported(outs[k].alias,
                                               run.values[outs[k].tensor])]]]
  /\ UNCHANGED <<x_pc, x_collections>>
  /\ UNCHANGED <<argsVars, parseVars, inferVars, evalVars, graphVars>>

\* The client starts a new request.
NewRequest ==
  /\ x_pc = "built"
  /\ x_response.status # "none"
  /\ x_request' = [records |-> <<>>, logits |-> <<>>, sent |-> <<>>]
  /\ x_response' = [status |-> "none", values |-> <<>>]
  /\ UNCHANGED <<x_pc, x_collections>>
  /\ UNCHANGED <<argsVars, parseVars, inferVars, evalVars, graphVars>>

ExportInit ==
  /\ x_pc = "unbuilt"
  /\ x_collections = [inputs |-> <<>>, outputs |-> <<>>]
  /\ x_request = [records |-> <<>>, logits |-> <<>>, sent |-> <<>>]
  /\ x_response = [status |-> "none", values |-> <<>>]

ExportNext ==
  BuildPredictionGraph \/ AddRequestRecord \/ Predict \/ NewRequest

Init ==
  ArgsInit /\ ParseInit /\ InferInit /\ EvalInit /\ GraphInit /\ ExportInit

SpecArgs == Init /\ [][ArgsNext]_vars

SpecParse == Init /\ [][ParseNext]_vars

SpecInference == Init /\ [][InferNext]_vars

SpecEval == Init /\ [][EvalNext]_vars

SpecGraph == Init /\ [][GraphNext]_vars

SpecExport == Init /\ [][ExportNext]_vars

(***************************************************************************)
(* Claims.                                                                 *)
(***************************************************************************)
\* The number of times an option occurs in an argument list, in either form.
Occurrences(flag, args) ==
  Cardinality({ i \in 1..Len(args) :
                  args[i] = flag \/ StartsWith(args[i], flag \o "=") })

\* The value an argparse-based reader of the list gives the option: the last
\* occurrence decides.
EffectiveValue(flag, args) ==
  LET occ == { i \in 1..Len(args) :
                 args[i] = flag \/ StartsWith(args[i], flag \o "=") }
      last == CHOOSE i \in occ : \A j \in occ : j <= i
  IN IF occ = {} THEN None
     ELSE IF args[last] = flag
       THEN (IF last < Len(args) THEN args[last + 1] ELSE None)
     ELSE SubSeq(args[last], Len(flag) + 2, Len(args[last]))

C1_Expected ==
  { <<"--max_steps", "5000">>, <<"--batch_size", "100">>,
    <<"--eval_set_size", "10000">>, <<"--eval_interval_secs", "1">>,
    <<"--log_interval_secs", "1">>, <<"--min_train_eval_rate", "1">> }

\* C1: when create_model returns, the caller's residual arguments are a
\* prefix of the returned list; an option the caller supplied (as --opt v or
\* --opt=v) occurs as often as the caller wrote it and keeps the caller's
\* value; an option the caller did not supply occurs exactly once, with its
\* default (5000, 100, 10000, 1, 1, 1).
C1_DefaultsFillOnlyMissing ==
  cm_pc = "done" =>
    LET rest == parse_known_args(argv).rest IN
      /\ Len(task_args) >= Len(rest)
      /\ SubSeq(task_args, 1, Len(rest)) = rest
      /\ \A d \in C1_Expected :
           IF Occurrences(d[1], rest) > 0
             THEN /\ Occurrences(d[1], task_args) = Occurrences(d[1], rest)
                  /\ EffectiveValue(d[1], task_args) = EffectiveValue(d[1], rest)
             ELSE /\ Occurrences(d[1], task_args) = 1
                  /\ EffectiveValue(d[1], task_args) = d[2]

\* create_model has returned for a caller who passed --batch_size=50 and no
\* --max_steps: 50 is in effect and --max_steps got its default.
C1_Witness ==
  /\ cm_pc = "done"
  /\ \E i \in 1..Len(argv) : argv[i] = "--batch_size=50"
  /\ Occurrences("--batch_size", argv) = 1
  /\ Occurrences("--max_steps", argv) = 0
  /\ EffectiveValue("--batch_size", task_args) = "50"
  /\ EffectiveValue("--max_steps", task_args) = "5000"

\* C8: building the parse ops fails on no record; executing them on N
\* records fails exactly when some record's images feature does not hold
\* 784 values, and otherwise yields N image vectors of length 784 and N
\* labels, row i holding record i's image values and its label, or -1 when
\* record i has no labels feature.
C8_ParseRoundTrip ==
  /\ p_pc = "built" => p_out.status = "not run"
  /\ p_pc = "ran" =>
       LET n == Len(p_feed)
           good == \A i \in 1..n :
                     Len(FeatureValues(p_feed[i], "images")) = 784
       IN IF ~good THEN p_out.status = "error"
          ELSE /\ p_out.status = "ok"
               /\ Len(p_out.tensors.images) = n
               /\ Len(p_out.tensors.labels) = n
               /\ \A i \in 1..n :
                    /\ Len(p_out.tensors.images[i]) = 784
                    /\ p_out.tensors.images[i] =
                         FeatureValues(p_feed[i], "images")
                    /\ p_out.tensors.labels[i] =
                         IF FeatureValues(p_feed[i], "labels") = <<>> THEN -1
                         ELSE FeatureValues(p_feed[i], "labels")[1]

\* Two well-formed records were parsed, the first without a label, the
\* second with label 9 and a bright last pixel.
C8_Witness ==
  /\ p_pc = "ran"
  /\ p_out.status = "ok"
  /\ Len(p_feed) = 2
  /\ p_out.tensors.labels = <<-1, 9>>
  /\ p_out.tensors.images[2][784] = 1
  /\ p_out.tensors.images[1][784] = 0

\* A label is a top-1 class of an example when no class scores higher.
IsMaximum(z, l) == \A c \in Classes : z[c] <= z[l]
IsUniqueMaximum(z, l) == \A c \in Classes \ {l} : z[c] < z[l]

\* C4: on a non-empty batch with labels in 0..9, evaluation returns k/n with
\* n the batch size and k the number of examples whose label scores highest
\* (0 <= k <= n); it is 1 when every label is the unique maximum and 0 when
\* no label is a maximum.
C4_AccuracyIsTopOneFraction ==
  (e_out.status = "ran" /\ \A i \in 1..Len(e_labels) : e_labels[i] \in 0..9)
  =>
    LET n == Len(e_labels)
        k == Cardinality({ i \in 1..n : IsMaximum(e_logits[i], e_labels[i]) })
    IN /\ n > 0
       /\ e_out.accuracy.den = n
       /\ e_out.accuracy.num = k
       /\ 0 <= e_out.accuracy.num /\ e_out.accuracy.num <= e_out.accuracy.den
       /\ (\A i \in 1..n : IsUniqueMaximum(e_logits[i], e_labels[i]))
            => e_out.accuracy.num = e_out.accuracy.den
       /\ (\A i \in 1..n : ~IsMaximum(e_logits[i], e_labels[i]))
            => e_out.accuracy.num = 0

\* A batch of two was evaluated: label 3 is the unique maximum of the first
\* example, label 7 shares the maximum of the second; both count.
C4_Witness ==
  /\ e_out.status = "ran"
  /\ e_labels = <<3, 7>>
  /\ IsUniqueMaximum(e_logits[1], 3)
  /\ IsMaximum(e_logits[2], 7) /\ ~IsUniqueMaximum(e_logits[2], 7)
  /\ e_out.accuracy = [num |-> 2, den |-> 2]

\* C3 as stated: inference builds three layers of widths hidden1, hidden2
\* and 10, the two hidden ones activated and the output layer linear.
C3_OutputLayerLinear ==
  i_layers # <<>> =>
    /\ Len(i_layers) = 3
    /\ i_layers[3].num_outputs = 10
    /\ i_layers[1].activation_fn # None
    /\ i_layers[2].activation_fn # None
    /\ i_layers[3].activation_fn = None
    /\ (i_out.affine # <<>> => i_out.logits = i_out.affine)

\* C2: in a training graph the global step is 0 after construction, equals
\* the number of completed runs of the training op ever after, goes up by
\* exactly 1 in each such run whatever the loss and the gradient, and never
\* goes down.
C2_GlobalStepCountsTrainingRuns ==
  /\ [](g_pc = "built" /\ g_is_training => g_session.global_step = g_steps)
  /\ [][/\ g_session'.global_step >= g_session.global_step
        /\ (g_is_training /\ g_steps' = g_steps + 1)
             => g_session'.global_step = g_session.global_step + 1]_vars

\* Two training runs with a zero gradient: the weights have not moved, the
\* global step is 2.
C2_Witness ==
  /\ g_pc = "built" /\ g_is_training
  /\ g_steps = 2
  /\ g_session.global_step = 2
  /\ g_session.weights = [nan |-> FALSE, v |-> 0]

\* The mean of one field of the folded batch values, as a ratio; n is the
\* batch size, the denominator of every batch value.
RECURSIVE HistorySum(_, _, _)
HistorySum(h, field, i) ==
  IF i = 0 THEN 0
  ELSE (IF field = "loss" THEN h[i].loss.num ELSE h[i].accuracy)
       + HistorySum(h, field, i - 1)

HistoryMean(h, field, n) ==
  IF Len(h) = 0 THEN [nan |-> FALSE, num |-> 0, den |-> 1]
  ELSE IF field = "loss" /\ \E i \in 1..Len(h) : h[i].loss.nan
    THEN [nan |-> TRUE, num |-> 0, den |-> n * Len(h)]
  ELSE [nan |-> FALSE, num |-> HistorySum(h, field, Len(h)),
        den |-> n * Len(h)]

SameRatio(a, b) ==
  /\ a.nan = b.nan
  /\ ~a.nan => a.num * b.den = b.num * a.den

\* C5: a fetch of the value ops returns, for the loss and for the accuracy,
\* the mean of all the batch values the update ops have folded in so far
\* (0 before the first), and the fetch leaves the running totals and counts
\* as they were.
C5_ValueOpReadsRunningMean ==
  /\ [](g_run.op = "metric_values" =>
          /\ SameRatio(g_run.values[1],
                       HistoryMean(g_folded, "loss", g_batch_size))
          /\ SameRatio(g_run.values[2],
                       HistoryMean(g_folded, "accuracy", g_batch_size)))
  /\ [][g_run'.op = "metric_values" => g_session'.means = g_session.means]_vars

\* Two batches of one example each were folded in, with losses 1 and 5 and
\* accuracies 1 and 0; the fetch returned 3 and 1/2, not the last batch's
\* 5 and 0.
C5_Witness ==
  /\ g_run.op = "metric_values"
  /\ g_batch_size = 1
  /\ Len(g_folded) = 2
  /\ g_folded[1] = [loss |-> [nan |-> FALSE, num |-> 1], accuracy |-> 1]
  /\ g_folded[2] = [loss |-> [nan |-> FALSE, num |-> 5], accuracy |-> 0]
  /\ SameRatio(g_run.values[1], [nan |-> FALSE, num |-> 3, den |-> 1])
  /\ SameRatio(g_run.values[2], [nan |-> FALSE, num |-> 1, den |-> 2])

\* C7: after build_graph in training mode, train is the optimizer step and
\* the counter it increments is the returned global_step; in evaluation
\* mode train is None, global_step is a non-trainable variable initialised
\* to 0, and its value stays 0 whatever metric updates and fetches run.
C7_ReferencesFollowMode ==
  g_pc = "built" =>
    IF g_is_training
      THEN /\ g_tensors.train.op = "minimize"
           /\ g_tensors.train.global_step = g_tensors.global_step
           /\ g_tensors.global_step.op = "Variable"
      ELSE /\ g_tensors.train = NoneOp
           /\ g_tensors.global_step.op = "Variable"
           /\ g_tensors.global_step.trainable = FALSE
           /\ g_tensors.global_step.initial_value = 0
           /\ g_session.global_step = 0
           /\ g_steps = 0

\* An evaluation graph after two metric updates and a fetch: the global step
\* is still 0 and there is no training op.
C7_Witness ==
  /\ g_pc = "built" /\ ~g_is_training
  /\ Len(g_folded) = 2
  /\ g_run.op = "metric_values"
  /\ g_tensors.train = NoneOp
  /\ g_session.global_step = 0

\* C9: in a run of the training op or of the metric updates that got a
\* batch, in either mode, the labels handed to loss and evaluation are the parsed labels of
\* the whole batch, one per record and -1 for a record without labels
\* field; they are all in 0..9 exactly when every record carries a label in
\* 0..9.
C9_LabelsPassedUnfiltered ==
  (g_run.op \in {"train", "metric_updates"} /\ g_run.status # "out of range")
  =>
    /\ Len(g_run.labels) = g_batch_size
    /\ Len(g_run.record_labels) = g_batch_size
    /\ \A i \in 1..g_batch_size :
         g_run.labels[i] = IF g_run.record_labels[i] = <<>> THEN -1
                           ELSE g_run.record_labels[i][1]
    /\ (\A i \in 1..g_batch_size : g_run.labels[i] \in 0..9)
         <=> (\A i \in 1..g_batch_size :
                /\ g_run.record_labels[i] # <<>>
                /\ g_run.record_labels[i][1] \in 0..9)

\* A training run on a batch whose second record has no label: the labels
\* 3 and -1 reached loss and evaluation.
C9_Witness ==
  /\ g_is_training
  /\ g_run.op = "train"
  /\ g_run.record_labels = << <<3>>, <<>> >>
  /\ g_run.labels = <<3, -1>>

\* C10: in both modes build_graph returns two metric updates and two metric
\* values, loss first and accuracy second, update k and value k sharing
\* their running mean; keys and predictions stay unset; and what
\* format_metric_values prints as loss and as accuracy are the running
\* means of the loss and of the accuracy, to three decimals.
C10_MetricListsAligned ==
  g_pc = "built" =>
    /\ Len(g_tensors.metric_updates) = 2
    /\ Len(g_tensors.metric_values) = 2
    /\ g_tensors.metric_updates[1].values.op = "loss"
    /\ g_tensors.metric_updates[2].values.op = "evaluation"
    /\ \A k \in 1..2 :
         /\ g_tensors.metric_updates[k].op = "mean_update"
         /\ g_tensors.metric_values[k].op = "mean_value"
         /\ g_tensors.metric_updates[k].scope = g_tensors.metric_values[k].scope
    /\ g_tensors.metric_updates[1].scope # g_tensors.metric_updates[2].scope
    /\ g_tensors.keys = NoneOp
    /\ g_tensors.predictions = <<>>
    /\ g_run.op = "metric_values" =>
         /\ Len(g_run.formatted) = 2
         /\ g_run.formatted[1].label = "loss"
         /\ g_run.formatted[1].value =
              Format3(HistoryMean(g_folded, "loss", g_batch_size))
         /\ g_run.formatted[2].label = "accuracy"
         /\ g_run.formatted[2].value =
              Format3(HistoryMean(g_folded, "accuracy", g_batch_size))

\* A training graph after one metric update on a batch of two (losses 1 and
\* 5, one example correct): the log line reads loss 3.000, accuracy 0.500.
C10_Witness ==
  /\ g_pc = "built" /\ g_is_training
  /\ g_batch_size = 2
  /\ Len(g_folded) = 1
  /\ g_run.op = "metric_values"
  /\ g_run.formatted =
       << [label |-> "loss",
           value |-> [nan |-> FALSE, thousandths |-> 3000]],
          [label |-> "accuracy",
           value |-> [nan |-> FALSE, thousandths |-> 500]] >>

\* The value the response holds under an alias.
ResponseValue(alias) ==
  LET k == CHOOSE j \in 1..Len(x_response.values) :
             x_response.values[j].alias = alias
  IN x_response.values[k].value

RegisteredAliases ==
  { x_collections.inputs[j][k].alias :
      j \in 1..Len(x_collections.inputs), k \in {1} }
  \cup
  { x_collections.outputs[1][k].alias :
      k \in 1..Len(x_collections.outputs[1]) }

\* C6: build_prediction_graph registers one input, examples_bytes, and the
\* three outputs key, prediction and scores; examples_bytes is the only
\* alias ending in _bytes, so the records travel base64-encoded and the
\* outputs plain; a response holds each record's key, the softmax of its
\* logits as scores and a class of highest score as prediction.
C6_EndpointsRegistered ==
  x_pc = "built" =>
    /\ Len(x_collections.inputs) = 1
    /\ Len(x_collections.inputs[1]) = 1
    /\ x_collections.inputs[1][1].alias = "examples_bytes"
    /\ Len(x_collections.outputs) = 1
    /\ Len(x_collections.outputs[1]) = 3
    /\ { x_collections.outputs[1][k].alias : k \in 1..3 }
         = {"key", "prediction", "scores"}
    /\ { a \in RegisteredAliases : EndsWith(a, "_bytes") } = {"examples_bytes"}
    /\ x_response.status = "ok" =>
         LET n == Len(x_request.records) IN
           /\ x_request.sent = << "examples_bytes",
                                  [base64 |-> x_request.records] >>
           /\ ResponseValue("key") =
                [plain |-> [i \in 1..n |->
                   FeatureValues(x_request.records[i], "key")[1]]]
           /\ \A i \in 1..n :
                LET sc == ResponseValue("scores").plain[i]
                    pr == ResponseValue("prediction").plain[i]
                    z == x_request.logits[i]
                IN /\ DOMAIN sc = 0..9
                   /\ \A c \in 0..9 :
                        /\ sc[c].num = Pow2(z[c])
                        /\ sc[c].den = SumPow2(z, 9)
                   /\ pr \in 0..9
                   /\ \A c \in 0..9 : z[c] <= z[pr]

\* A request of two records with keys a and b was answered; the second
\* record's logits tie between classes 3 and 7 and class 3 is predicted.
C6_Witness ==
  /\ x_pc = "built"
  /\ x_response.status = "ok"
  /\ Len(x_request.records) = 2
  /\ ResponseValue("key") = [plain |-> <<"a", "b">>]
  /\ x_request.logits[2][3] = x_request.logits[2][7]
  /\ \A c \in Classes : x_request.logits[2][c] <= x_request.logits[2][3]
  /\ ResponseValue("prediction").plain[2] = 3

=============================================================================
